---- MODULE Spec2Model ----
(***************************************************************************)
(* Model of libsmartcols/src/print.c: the cell renderer, the pending-data  *)
(* cursor, the tree and group art generators and the line / range walkers. *)
(*                                                                         *)
(* Text is a sequence of glyphs.  "a" is a one-byte, one-cell character,   *)
(* "W" a three-byte, two-cell (wide) character, "\n" the newline byte and  *)
(* "x" one character of a \xNN escape produced by the safe encoder.        *)
(***************************************************************************)
EXTENDS Integers, Sequences, FiniteSets, TLC

VARIABLES
    pc,          \* position of the walker: idle, range, line, extra, tail, hdr, done
    tb,          \* struct libscols_table: the render configuration and counters
    cols,        \* tb->tb_columns: the columns with their pending-data cursors
    itr,         \* the range iterator: number of lines fetched so far
    endln,       \* the optional end line of the range (0: none)
    ln,          \* the line being printed: one cell text per column
    last,        \* scols_iter_is_last(itr) of the row being printed
    lrc,         \* print_line's local rc
    pending,     \* print_line's local pending flag
    rc,          \* __scols_print_range's local rc
    ret,         \* what the finished call returned to its caller
    out,         \* the output sink, as the sequence of things written
    fault_row,   \* the first row at which a rendering step reported an error (0: none)
    parent,      \* the forest of lines: each line's parent line (0: a tree root)
    cur,         \* the line handed to __cell_to_buffer / print_data
    grpset,      \* tb->grpset: per slot a group's state, or "null"
    buf          \* the scratch buffer after __cell_to_buffer

walker == <<pc, itr, endln, last, lrc, pending, rc, ret, fault_row>>
forest == <<parent, cur, grpset, buf>>
vars == <<pc, tb, cols, itr, endln, ln, last, lrc, pending, rc, ret, out, fault_row,
          parent, cur, grpset, buf>>

-----------------------------------------------------------------------------
(* Bounds of the model *)

NCols == 2
NRows == 2
MaxWidth == 2

(* errno values *)
EINVAL == 22
ENOMEM == 12

-----------------------------------------------------------------------------
(* Multi-byte text services (lib/mbsalign.c) *)

GBytes(g) ==
    IF g \in {"W", "g_m_first", "g_m_middle", "g_m_last"} THEN 3
    ELSE IF g \in {"vert", "blank", "branch", "right", "g_c_middle", "g_c_last"} THEN 2
    ELSE 1

\* the art glyphs have the widths of the fallback symbols
GCells(g) ==
    IF g \in {"W", "vert", "blank", "branch", "right", "g_c_middle", "g_c_last"} THEN 2
    ELSE IF g \in {"g_m_first", "g_m_middle", "g_m_last"} THEN 3
    ELSE 1

RECURSIVE strlen(_)
strlen(s) == IF s = <<>> THEN 0 ELSE GBytes(Head(s)) + strlen(Tail(s))

RECURSIVE mbs_width(_)
mbs_width(s) == IF s = <<>> THEN 0 ELSE GCells(Head(s)) + mbs_width(Tail(s))

\* the text that starts `n` bytes into s (a pointer s + n)
RECURSIVE PtrAdd(_, _)
PtrAdd(s, n) ==
    IF n <= 0 \/ s = <<>> THEN s ELSE PtrAdd(Tail(s), n - GBytes(Head(s)))

\* wc_truncate: the number of leading glyphs that fit in `width` cells, a
\* glyph is never split
RECURSIVE wc_truncate(_, _, _)
wc_truncate(s, width, k) ==
    IF k = Len(s) THEN k
    ELSE IF mbs_width(SubSeq(s, 1, k)) + GCells(s[k + 1]) > width THEN k
    ELSE wc_truncate(s, width, k + 1)

\* mbs_truncate(str, &width): str cut in place, the bytes kept, the cells kept
mbs_truncate(s, width) ==
    LET k == wc_truncate(s, width, 0)
        t == SubSeq(s, 1, k)
    IN  [str |-> t, bytes |-> strlen(t), len |-> mbs_width(t)]

\* mbs_safe_encode: a newline outside the column's safe characters becomes \x0a
RECURSIVE mbs_safe_encode(_, _)
mbs_safe_encode(s, nlsafe) ==
    IF s = <<>> THEN <<>>
    ELSE (IF Head(s) = "\n" /\ ~nlsafe THEN <<"x", "x", "x", "x">> ELSE <<Head(s)>>)
         \o mbs_safe_encode(Tail(s), nlsafe)

-----------------------------------------------------------------------------
(* Column predicates (column.c, smartcolsP.h) *)

scols_column_is_customwrap(cl) == cl.wrap /\ cl.wrapfunc

\* scols_wrapnl_nextchunk: the index of the first newline of s, 0 for NULL
RECURSIVE wrap_nextchunk(_)
wrap_nextchunk(s) ==
    IF s = <<>> THEN 0
    ELSE IF Head(s) = "\n" THEN 1
    ELSE LET k == wrap_nextchunk(Tail(s)) IN IF k = 0 THEN 0 ELSE k + 1

\* is_last_column: every later column is hidden
is_last_column(cs, i) == \A j \in (i + 1)..Len(cs) : cs[j].hidden

-----------------------------------------------------------------------------
(* Pending data *)

set_pending_data(cl, data, sz) ==
    [cl EXCEPT !.pending_data_buf = data,
               !.pending_data_sz = sz,
               !.pending_data = 0]

\* step_pending_data that frees the buffer whatever is left of it
step_pending_data_free(cl, bytes) == set_pending_data(cl, <<>>, 0)

\* step_pending_data that moves the cursor and keeps the size
step_pending_data_keep_sz(cl, bytes) ==
    IF bytes >= cl.pending_data_sz
    THEN set_pending_data(cl, <<>>, 0)
    ELSE [cl EXCEPT !.pending_data = cl.pending_data + bytes]

step_pending_data(cl, bytes) ==
    IF bytes >= cl.pending_data_sz
    THEN set_pending_data(cl, <<>>, 0)
    ELSE [cl EXCEPT !.pending_data = cl.pending_data + bytes,
                    !.pending_data_sz = cl.pending_data_sz - bytes]

\* cl->pending_data != NULL
has_pending(cl) == cl.pending_data_buf # <<>>

\* the text cl->pending_data points to
pending_text(cl) == PtrAdd(cl.pending_data_buf, cl.pending_data)

has_pending_data(cs) == \E i \in 1..Len(cs) : ~cs[i].hidden /\ has_pending(cs[i])

-----------------------------------------------------------------------------
(* Cell renderer *)

NullLine == <<>>

\* the later columns are empty whenever none of them has data
is_next_columns_empty_data(cs, i, line) ==
    IF is_last_column(cs, i) THEN TRUE
    ELSE IF line = NullLine THEN FALSE
    ELSE \A j \in (i + 1)..Len(cs) : cs[j].hidden \/ line[j] = <<>>

is_next_columns_empty(cs, i, line) ==
    IF is_last_column(cs, i) THEN TRUE
    ELSE IF line = NullLine THEN FALSE
    ELSE \A j \in (i + 1)..Len(cs) :
            cs[j].hidden \/ (~cs[j].tree /\ line[j] = <<>>)

\* the end of a cell: whether it was filled, the cells written before the
\* fill, and the padding glyphs of the fill
Fill(filled, len, width) ==
    [filled |-> filled, len |-> len,
     pad |-> IF filled /\ len < width THEN width - len ELSE 0]

NoFill == Fill(FALSE, 0, 0)

\* buffer_get_safe_data: the encoded text of the scratch buffer
buffer_get_safe_data(cl, bufdata) == mbs_safe_encode(bufdata, cl.safe_nl)

\* print_data, the fill, the line break and the separator after the text:
\* the column, and whether the cell ended with print_newline_padding
print_data_fill(t, cs, i, line, cl, len, width) ==
    [cl |-> cl,
     fill |-> Fill(/\ ~(t.minout /\ is_next_columns_empty(cs, i, line))
                   /\ ~(~t.maxout /\ is_last_column(cs, i)),
                   len, width),
     nlpad |-> /\ ~(t.minout /\ is_next_columns_empty(cs, i, line))
               /\ ~(~t.maxout /\ is_last_column(cs, i))
               /\ len > width
               /\ ~cl.trunc]

\* the pending data of a standard multi-line cell d, cut after `bytes` bytes
wrap_pending(cl, d, bytes) ==
    IF bytes > 0
    THEN step_pending_data(set_pending_data(cl, d.str, d.bytes), bytes)
    ELSE set_pending_data(cl, d.str, d.bytes)

\* print_data, the standard multi-line cell
print_data_wrap(t, cs, i, line, cl, d, width) ==
    IF d.len > width /\ cl.wrap /\ ~scols_column_is_customwrap(cl)
    THEN print_data_fill(t, cs, i, line,
                         wrap_pending(cl, d, mbs_truncate(d.str, width).bytes),
                         mbs_truncate(d.str, width).len, width)
    ELSE print_data_fill(t, cs, i, line, cl, d.len, width)

\* print_data, the truncation of the data
print_data_trunc(t, cs, i, line, cl, data, bytes, len, width) ==
    IF len > width /\ cl.trunc
    THEN print_data_wrap(t, cs, i, line, cl, mbs_truncate(data, width), width)
    ELSE print_data_wrap(t, cs, i, line, cl,
                         [str |-> data, bytes |-> bytes, len |-> len], width)

\* print_data, the width of the cell: a short last column is not padded
print_data_width(t, cs, i, line, cl, data, bytes) ==
    print_data_trunc(t, cs, i, line, cl, data, bytes, mbs_width(data),
                     IF /\ is_last_column(cs, i)
                        /\ mbs_width(data) < cl.width
                        /\ ~t.maxout
                        /\ ~cl.right
                     THEN mbs_width(data) ELSE cl.width)

\* print_data, the custom multi-line cell: the first chunk is the cell, the
\* rest is pending
print_data_custom(t, cs, i, line, data) ==
    LET nc == IF data # <<>> /\ scols_column_is_customwrap(cs[i])
              THEN wrap_nextchunk(data) ELSE 0
    IN  IF nc # 0
        THEN print_data_width(t, cs, i, line,
                 set_pending_data(cs[i], SubSeq(data, nc + 1, Len(data)),
                                  strlen(data) - strlen(SubSeq(data, 1, nc))),
                 SubSeq(data, 1, nc - 1), strlen(SubSeq(data, 1, nc)))
        ELSE print_data_width(t, cs, i, line, cs[i], data, strlen(data))

\* print_data: the column after the cell was written, and whether the cell
\* ended with print_newline_padding (one more output line)
print_data(t, cs, i, line, bufdata) ==
    IF t.format # "human"
    THEN [cl |-> cs[i], fill |-> NoFill, nlpad |-> FALSE]
    ELSE print_data_custom(t, cs, i, line, buffer_get_safe_data(cs[i], bufdata))

\* print_pending_data: rc and the column after one more line of its pending
\* data was written; `nomem` is strdup returning NULL
print_pending_data(t, cs, i, line, nomem) ==
    LET cl == cs[i]
        data == pending_text(cl)
        nc == IF scols_column_is_customwrap(cl) THEN wrap_nextchunk(data) ELSE 0
        bytes == IF nc # 0 THEN strlen(SubSeq(data, 1, nc))
                 ELSE mbs_truncate(data, cl.width).bytes
        len == IF nc # 0 THEN mbs_width(SubSeq(data, 1, nc - 1))
               ELSE mbs_truncate(data, cl.width).len
    IN  IF ~has_pending(cl) THEN [rc |-> 0, cl |-> cl, fill |-> NoFill]
        ELSE IF cl.width = 0 THEN [rc |-> -EINVAL, cl |-> cl, fill |-> NoFill]
        ELSE IF nomem THEN [rc |-> -ENOMEM, cl |-> cl, fill |-> NoFill]
        ELSE [rc |-> 0,
              cl |-> IF bytes # 0 THEN step_pending_data(cl, bytes) ELSE cl,
              fill |-> Fill(/\ ~(t.minout /\ is_next_columns_empty(cs, i, line))
                            /\ ~(~t.maxout /\ is_last_column(cs, i)),
                            len, cl.width)]

\* __cell_to_buffer for a column that is not a tree column: rc and the buffer;
\* `bad` is buffer_set_data failing
cell_to_buffer_data(line, i, bad) ==
    IF bad /\ line[i] # <<>> THEN [rc |-> -EINVAL, buf |-> <<>>]
    ELSE [rc |-> 0, buf |-> line[i]]

-----------------------------------------------------------------------------
(* Line walker *)

\* print_line, one cell of the regular line written by print_data
regular_cell_done(cs, i, d) ==
    [cols |-> [cs EXCEPT ![i] = d.cl], rc |-> 0,
     pending |-> has_pending(d.cl), nl |-> IF d.nlpad THEN 1 ELSE 0]

\* print_line, one cell of the regular line: __cell_to_buffer, then print_data
regular_cell(t, cs, line, i, b) ==
    IF b.rc # 0
    THEN [cols |-> cs, rc |-> b.rc, pending |-> FALSE, nl |-> 0]
    ELSE regular_cell_done(cs, i, print_data(t, cs, i, line, b.buf))

\* print_line, the regular line: columns i..ncols, given rc and pending so
\* far; `bad` is the column whose __cell_to_buffer fails (0: none).  nl counts
\* the line breaks of print_newline_padding.
RECURSIVE print_line_regular(_, _, _, _, _, _, _, _)
print_line_regular_next(t, line, i, bad, pend, nl, c) ==
    print_line_regular(t, c.cols, line, i + 1, bad, c.rc,
                       pend \/ c.pending, nl + c.nl)

print_line_regular(t, cs, line, i, bad, r, pend, nl) ==
    IF r # 0 \/ i > Len(cs) THEN [cols |-> cs, rc |-> r, pending |-> pend, nl |-> nl]
    ELSE IF cs[i].hidden THEN print_line_regular(t, cs, line, i + 1, bad, r, pend, nl)
    ELSE print_line_regular_next(t, line, i, bad, pend, nl,
             regular_cell(t, cs, line, i, cell_to_buffer_data(line, i, bad = i)))

\* print_line, one extra line of the multi-line cells: columns i..ncols;
\* `bad` is the column whose strdup fails (0: none)
RECURSIVE print_line_extra(_, _, _, _, _, _, _)
print_line_extra_next(t, cs, line, i, bad, pend, p) ==
    print_line_extra(t, [cs EXCEPT ![i] = p.cl], line, i + 1, bad, p.rc,
                     pend \/ (p.rc = 0 /\ has_pending(p.cl)))

print_line_extra(t, cs, line, i, bad, r, pend) ==
    IF r # 0 \/ i > Len(cs) THEN [cols |-> cs, rc |-> r, pending |-> pend]
    ELSE IF cs[i].hidden THEN print_line_extra(t, cs, line, i + 1, bad, r, pend)
    ELSE IF has_pending(cs[i])
    THEN print_line_extra_next(t, cs, line, i, bad, pend,
                               print_pending_data(t, cs, i, line, bad = i))
    ELSE print_line_extra(t, cs, line, i + 1, bad, r, pend)

\* print_line's return statement, given its local rc
print_line_return(r) == 0

-----------------------------------------------------------------------------
(* Header *)

want_repeat_header(t) == ~t.header_repeat \/ t.header_next <= t.termlines_used

\* the header cells of columns i..ncols through print_data, no line given
RECURSIVE print_header_cells(_, _, _, _)
print_header_cell_done(t, cs, i, nl, d) ==
    print_header_cells(t, [cs EXCEPT ![i] = d.cl], i + 1,
                       nl + (IF d.nlpad THEN 1 ELSE 0))

print_header_cells(t, cs, i, nl) ==
    IF i > Len(cs) THEN [cols |-> cs, nl |-> nl]
    ELSE IF cs[i].hidden THEN print_header_cells(t, cs, i + 1, nl)
    ELSE print_header_cell_done(t, cs, i, nl,
                                print_data(t, cs, i, NullLine, cs[i].header))

\* __scols_print_header once it decided to print: the table, the columns
print_header_done(t, h) ==
    [tb |-> [t EXCEPT !.termlines_used = t.termlines_used + h.nl + 1,
                      !.header_printed = TRUE,
                      !.header_next = t.termlines_used + h.nl + 1 + t.termheight],
     cols |-> h.cols,
     written |-> TRUE]

\* __scols_print_header: the table, the columns, and whether a header was written
scols_print_header(t, cs) ==
    IF (t.header_printed /\ ~t.header_repeat) \/ t.noheadings
       \/ t.format = "export" \/ t.format = "json" \/ NRows = 0
    THEN [tb |-> t, cols |-> cs, written |-> FALSE]
    ELSE print_header_done(t, print_header_cells(t, cs, 1, 0))

-----------------------------------------------------------------------------
(* State *)

MaxCont == 5

CellData ==
    { <<>>, <<"a">>, <<"a", "a", "a">>, <<"a", "W", "a">>, <<"a", "\n", "a">> }

NoFlags == [wrap |-> FALSE, trunc |-> FALSE, wrapfunc |-> FALSE]
Trunc == [wrap |-> FALSE, trunc |-> TRUE, wrapfunc |-> FALSE]
Wrap == [wrap |-> TRUE, trunc |-> FALSE, wrapfunc |-> FALSE]
WrapTrunc == [wrap |-> TRUE, trunc |-> TRUE, wrapfunc |-> FALSE]
CustomWrap == [wrap |-> TRUE, trunc |-> FALSE, wrapfunc |-> TRUE]

Column(w, f, h) ==
    [width |-> w, wrap |-> f.wrap, trunc |-> f.trunc, wrapfunc |-> f.wrapfunc,
     safe_nl |-> f.wrapfunc, hidden |-> h, right |-> FALSE, tree |-> FALSE,
     is_groups |-> FALSE, json_type |-> "string", header |-> <<"a">>,
     pending_data_buf |-> <<>>, pending_data |-> 0, pending_data_sz |-> 0]

\* the columns: wrapping ones of every width, the others of one width, and
\* one hidden column (nothing of a hidden column is read)
Columns ==
    { Column(w, f, FALSE) : w \in 0..MaxWidth, f \in {Wrap, CustomWrap} }
    \cup { Column(1, f, FALSE) : f \in {Trunc, WrapTrunc} }
    \cup { Column(MaxWidth, NoFlags, FALSE), Column(1, NoFlags, TRUE) }

\* the lines of the table: a hidden column's cell is never read and stays empty
Lines(cs) ==
    { cells \in [1..NCols -> CellData] :
        \A i \in 1..NCols : cs[i].hidden => cells[i] = <<>> }

\* the columns where one more failure (of an allocation, of the scratch
\* buffer) may be injected: at most one per call
Faults == IF fault_row = 0 THEN 0..NCols ELSE {0}

Table(fmt, rep, height, nosep, nohead) ==
    [format |-> fmt, header_repeat |-> rep, header_printed |-> FALSE,
     header_next |-> 0, termlines_used |-> 0, termheight |-> height,
     no_linesep |-> nosep, noheadings |-> nohead,
     maxout |-> FALSE, minout |-> FALSE, is_tree |-> FALSE, has_groups |-> FALSE]

\* a human table without headings, any two columns
InitLine ==
    /\ tb = Table("human", FALSE, 1, FALSE, TRUE)
    /\ cols \in [1..NCols -> Columns]

\* any format and header configuration, a wrapping and a plain column
InitHeader ==
    /\ tb \in { Table(fmt, rep, height, nosep, nohead) :
                  fmt \in {"human", "raw", "export", "json"},
                  rep \in BOOLEAN, height \in 1..2,
                  nosep \in BOOLEAN, nohead \in BOOLEAN }
    /\ tb.header_repeat => tb.format = "human"
    /\ cols = [i \in 1..NCols |->
                 IF i = 1 THEN Column(1, Wrap, FALSE)
                 ELSE Column(MaxWidth, NoFlags, FALSE)]

\* no tree, no groups, nothing in the scratch buffer
NoForest ==
    /\ parent = [l \in 1..NRows |-> 0]
    /\ cur = 0
    /\ grpset = <<>>
    /\ buf = <<>>

Init ==
    /\ (InitLine \/ InitHeader)
    /\ NoForest
    /\ pc = "idle"
    /\ itr = 0
    /\ endln = 0
    /\ ln = NullLine
    /\ last = FALSE
    /\ lrc = 0
    /\ pending = FALSE
    /\ rc = 0
    /\ ret = 0
    /\ out = <<>>
    /\ fault_row = 0

Tok(k, r) == [k |-> k, r |-> r]

\* the extra lines written so far for row r
ContLines(r) == Cardinality({ i \in 1..Len(out) : out[i] = Tok("cont", r) })

-----------------------------------------------------------------------------
(* Actions *)

\* the caller prints the header before the range
PrintHeader ==
    /\ pc = "idle"
    /\ out = <<>>
    /\ \E h \in {scols_print_header(tb, cols)} :
           /\ h.written
           /\ tb' = h.tb
           /\ cols' = h.cols
           /\ out' = Append(out, Tok("hdr", 0))
    /\ UNCHANGED <<pc, itr, endln, ln, last, lrc, pending, rc, ret, fault_row>>
    /\ UNCHANGED forest

\* __scols_print_range is called
PrintRange ==
    /\ pc = "idle"
    /\ \E e \in 0..(NRows - 1) : endln' = e
    /\ pc' = "range"
    /\ rc' = 0
    /\ UNCHANGED <<tb, cols, itr, ln, last, lrc, pending, ret, out, fault_row>>
    /\ UNCHANGED forest

\* the loop of __scols_print_range finds the next line
NextLine ==
    /\ pc = "range"
    /\ rc = 0
    /\ itr < NRows
    /\ \E cells \in Lines(cols) : ln' = cells
    /\ itr' = itr + 1
    /\ last' = (itr + 1 = NRows)
    /\ out' = IF tb.format = "json" THEN Append(out, Tok("open", itr + 1)) ELSE out
    /\ pc' = "line"
    /\ UNCHANGED <<tb, cols, endln, lrc, pending, rc, ret, fault_row>>
    /\ UNCHANGED forest

\* the loop of __scols_print_range ends, the call returns rc
RangeReturn ==
    /\ pc = "range"
    /\ ~(rc = 0 /\ itr < NRows)
    /\ ret' = rc
    /\ pc' = "done"
    /\ UNCHANGED <<tb, cols, itr, endln, ln, last, lrc, pending, rc, out, fault_row>>
    /\ UNCHANGED forest

\* print_line: the regular line
PrintLineRegular ==
    /\ pc = "line"
    /\ \E bad \in Faults :
         \E p \in {print_line_regular(tb, cols, ln, 1, bad, 0, FALSE, 0)} :
             /\ cols' = p.cols
             /\ lrc' = p.rc
             /\ pending' = p.pending
             /\ tb' = [tb EXCEPT !.termlines_used = @ + p.nl]
             /\ fault_row' = IF fault_row = 0 /\ p.rc # 0 THEN itr ELSE fault_row
    /\ out' = Append(out, Tok("row", itr))
    /\ pc' = "extra"
    /\ UNCHANGED <<itr, endln, ln, last, rc, ret>>
    /\ UNCHANGED forest

\* print_line: one extra line of the multi-line cells
PrintLineExtra ==
    /\ pc = "extra"
    /\ lrc = 0 /\ pending
    /\ ContLines(itr) < MaxCont
    /\ \E bad \in Faults :
         \E p \in {print_line_extra(tb, cols, ln, 1, bad, 0, FALSE)} :
             /\ cols' = p.cols
             /\ lrc' = p.rc
             /\ pending' = p.pending
             /\ fault_row' = IF fault_row = 0 /\ p.rc # 0 THEN itr ELSE fault_row
    /\ tb' = [tb EXCEPT !.termlines_used = @ + 1]
    /\ out' = Append(out, Tok("cont", itr))
    /\ UNCHANGED <<pc, itr, endln, ln, last, rc, ret>>
    /\ UNCHANGED forest

\* print_line returns to __scols_print_range
PrintLineReturn ==
    /\ pc = "extra"
    /\ ~(lrc = 0 /\ pending)
    /\ rc' = print_line_return(lrc)
    /\ pc' = "tail"
    /\ UNCHANGED <<tb, cols, itr, endln, ln, last, lrc, pending, ret, out, fault_row>>
    /\ UNCHANGED forest

\* __scols_print_range after print_line: close the object or separate the
\* lines, then stop at the end line
RangeTail ==
    /\ pc = "tail"
    /\ LET sep == tb.format # "json" /\ ~last /\ ~tb.no_linesep
       IN  /\ out' = IF tb.format = "json" THEN Append(out, Tok("close", itr))
                     ELSE IF sep THEN Append(out, Tok("sep", itr))
                     ELSE out
           /\ tb' = IF sep THEN [tb EXCEPT !.termlines_used = @ + 1] ELSE tb
    /\ IF endln # 0 /\ itr = endln
       THEN pc' = "done" /\ ret' = rc
       ELSE pc' = "hdr" /\ ret' = ret
    /\ UNCHANGED <<cols, itr, endln, ln, last, lrc, pending, rc, fault_row>>
    /\ UNCHANGED forest

\* __scols_print_range: the header is repeated, or not, before the next line
RangeHeader ==
    /\ pc = "hdr"
    /\ \E h \in {scols_print_header(tb, cols)} :
           IF ~last /\ want_repeat_header(tb) /\ h.written
           THEN /\ tb' = h.tb
                /\ cols' = h.cols
                /\ out' = Append(out, Tok("hdr", itr + 1))
           ELSE UNCHANGED <<tb, cols, out>>
    /\ pc' = "range"
    /\ UNCHANGED <<itr, endln, ln, last, lrc, pending, rc, ret, fault_row>>
    /\ UNCHANGED forest

Next ==
    \/ PrintHeader
    \/ PrintRange
    \/ NextLine
    \/ RangeReturn
    \/ PrintLineRegular
    \/ PrintLineExtra
    \/ PrintLineReturn
    \/ RangeTail
    \/ RangeHeader

Spec == Init /\ [][Next]_vars

-----------------------------------------------------------------------------
(* Claims about the line and range walkers *)

Visible == { i \in 1..NCols : ~cols[i].hidden }

\* C1: when rendering a cell of some row failed, the finished printRange call
\* returned a non-zero error outcome
C1_ErrorReturned == (pc = "done" /\ fault_row # 0) => ret # 0

\* C2: once rendering row r has failed, nothing that belongs to a later row
\* (cells, extra lines, line separator, JSON object, header before it) is
\* written any more in the same call
C2_AbortAfterFailure ==
    [][fault_row # 0 =>
         \A k \in (Len(out) + 1)..Len(out') : out'[k].r <= fault_row]_vars

\* what the formula of C3 counts for column i: ceil(w / width) - 1 lines for a
\* text of w > 0 cells, none for an empty text
CeilLines(w, width) == IF w = 0 THEN 0 ELSE ((w + width - 1) \div width) - 1

RECURSIVE SetMax(_)
SetMax(S) ==
    IF S = {} THEN 0
    ELSE LET x == CHOOSE y \in S : TRUE
             m == SetMax(S \ {x})
         IN  IF x > m THEN x ELSE m

OneCell(s) == \A k \in 1..Len(s) : GCells(s[k]) = 1

\* a row of a human table has been rendered, no rendering step has failed
RowRendered == pc = "tail" /\ tb.format = "human" /\ fault_row = 0

Wrapping == { i \in Visible : cols[i].wrap /\ ~cols[i].trunc /\ ln[i] # <<>> }

C4_DrainProgress ==
    [][(pc = "extra" /\ pc' = "extra" /\ lrc' = 0) =>
         \A i \in Visible :
            has_pending(cols[i]) => cols'[i].pending_data_sz < cols[i].pending_data_sz]_vars

\* C5: when the line walker starts a row and when it returns from a row, every
\* visible column's pending-data cursor is empty
C5_CursorReset ==
    pc \in {"line", "tail"} =>
        \A i \in Visible : ~has_pending(cols[i]) /\ cols[i].pending_data_sz = 0

\* C10: printRange writes a header between two rows only if header repetition
\* is configured and the output-line counter has reached the mark of the
\* previous header
C10_HeaderOnlyOnRepeat ==
    [][(pc = "hdr" /\ Len(out') > Len(out)) =>
         (tb.header_repeat /\ tb.header_next <= tb.termlines_used)]_vars

-----------------------------------------------------------------------------
(* Tree and group art generators *)

\* slots of the group-lane array taken by one group
SCOLS_GRPSET_CHUNKSIZ == 3

NLines == 4
NChunks == 3

\* buffer_append_ntimes
Ntimes(n, g) == [k \in 1..n |-> g]

\* the line has a parent and is the last of the parent's children
is_last_child(par, l) ==
    /\ par[l] # 0
    /\ \A m \in DOMAIN par : m > l => par[m] # par[l]

\* tree art that also draws a glyph for a line without parent
RECURSIVE tree_ascii_art_to_buffer_root(_, _)
tree_ascii_art_to_buffer_root(par, l) ==
    Append(IF par[l] = 0 THEN <<>> ELSE tree_ascii_art_to_buffer_root(par, par[l]),
           IF is_last_child(par, l) THEN "blank" ELSE "vert")

RECURSIVE tree_ascii_art_to_buffer(_, _)
tree_ascii_art_to_buffer(par, l) ==
    IF par[l] = 0 THEN <<>>
    ELSE Append(tree_ascii_art_to_buffer(par, par[l]),
                IF is_last_child(par, l) THEN "blank" ELSE "vert")

\* counts into rest the null slots from idx on, up to the first group
RECURSIVE grpset_is_empty(_, _, _)
grpset_is_empty(gs, idx, rest) ==
    IF idx > Len(gs) THEN [empty |-> TRUE, rest |-> rest]
    ELSE IF gs[idx] = "null" THEN grpset_is_empty(gs, idx + 1, rest + 1)
    ELSE [empty |-> FALSE, rest |-> rest]

grp_append(st, s) == [st EXCEPT !.buf = st.buf \o s]

\* a null chunk that appends nothing
grp_null_chunk_skip(st) == st

\* if (!gr): a filler run of the chunk size
grp_null_chunk(st) == grp_append(st, Ntimes(SCOLS_GRPSET_CHUNKSIZ, "pad"))

\* SCOLS_GSTATE_MIDDLE_CHILD and SCOLS_GSTATE_LAST_CHILD
grp_child(st, lead, conn, e) ==
    [buf |-> st.buf \o <<lead, conn>>
               \o (IF e.empty THEN Ntimes(e.rest + 1, "g_horz") ELSE <<>>),
     filler |-> "g_horz", rest |-> e.rest, filled |-> e.empty]

\* one turn of the loop over the chunks
grp_chunk(gs, i, st) ==
    CASE gs[i] = "null" -> grp_null_chunk(st)
      [] gs[i] = "first_member" -> grp_append(st, <<"g_m_first">>)
      [] gs[i] = "middle_member" -> grp_append(st, <<"g_m_middle">>)
      [] gs[i] = "last_member" -> grp_append(st, <<"g_m_last">>)
      [] gs[i] = "cont_members" ->
             grp_append(st, <<"g_vert", st.filler, st.filler>>)
      [] gs[i] = "middle_child" ->
             grp_child(st, st.filler, "g_c_middle",
                       grpset_is_empty(gs, i + SCOLS_GRPSET_CHUNKSIZ, st.rest))
      [] gs[i] = "last_child" ->
             grp_child(st, "pad", "g_c_last",
                       grpset_is_empty(gs, i + SCOLS_GRPSET_CHUNKSIZ, st.rest))
      [] gs[i] = "cont_children" ->
             grp_append(st, <<st.filler, "g_vert", st.filler>>)

RECURSIVE grp_chunks(_, _, _)
grp_chunks(gs, i, st) ==
    IF i > Len(gs) \/ st.filled THEN st
    ELSE grp_chunks(gs, i + SCOLS_GRPSET_CHUNKSIZ, grp_chunk(gs, i, st))

grp_fallback(st) == IF st.filled THEN st.buf ELSE Append(st.buf, st.filler)

groups_ascii_art_to_buffer(t, gs) ==
    IF ~t.has_groups THEN <<>>
    ELSE grp_fallback(grp_chunks(gs, 1, [buf |-> <<>>, filler |-> "pad",
                                         rest |-> 0, filled |-> FALSE]))

cell_groups_art(t, cl, gs) ==
    IF t.format # "json" /\ cl.is_groups THEN groups_ascii_art_to_buffer(t, gs)
    ELSE <<>>

cell_tree_art(t, par, l) ==
    IF par[l] # 0 /\ t.format # "json"
    THEN Append(tree_ascii_art_to_buffer(par, par[l]),
                IF is_last_child(par, l) THEN "right" ELSE "branch")
    ELSE <<>>

\* __cell_to_buffer: group art, tree art, then the cell's data
cell_to_buffer(t, par, l, cl, gs, data) ==
    IF ~cl.tree THEN data
    ELSE cell_groups_art(t, cl, gs) \o cell_tree_art(t, par, l) \o data

\* the group-lane array: every group takes a chunk of slots
GrpStates ==
    { "null", "first_member", "middle_member", "last_member", "cont_members",
      "middle_child", "last_child", "cont_children" }

GrpSet(ch) ==
    [k \in 1..(Len(ch) * SCOLS_GRPSET_CHUNKSIZ) |->
        ch[((k - 1) \div SCOLS_GRPSET_CHUNKSIZ) + 1]]

GrpSets == { GrpSet(ch) : ch \in UNION { [1..n -> GrpStates] : n \in 0..NChunks } }

\* the lines in the order of the tree walk: a parent comes before its children
Forests == { p \in [1..NLines -> 0..(NLines - 1)] : \A l \in 1..NLines : p[l] < l }

TreeColumn(tr, g) ==
    [Column(MaxWidth, NoFlags, FALSE) EXCEPT !.tree = tr, !.is_groups = g]

TreeTable(fmt, hg) ==
    [Table(fmt, FALSE, 1, FALSE, TRUE) EXCEPT !.is_tree = TRUE, !.has_groups = hg]

\* one cell of one line of a tree: any forest with few lane arrays, or any
\* lane array with a flat forest
InitArt ==
    /\ pc = "art"
    /\ parent \in Forests
    /\ cur \in 1..NLines
    /\ grpset \in GrpSets
    /\ \/ grpset \in { <<>>, GrpSet(<<"last_member", "null">>) }
       \/ parent = [l \in 1..NLines |-> 0] /\ cur = 1
    /\ tb \in { TreeTable(fmt, hg) : fmt \in {"human", "json"}, hg \in BOOLEAN }
    /\ grpset # <<>> => tb.has_groups
    /\ cols \in { <<TreeColumn(tr, g)>> : tr \in BOOLEAN, g \in BOOLEAN }
    /\ ln \in { <<d>> : d \in { <<>>, <<"a">>, <<"a", "W">> } }
    /\ buf = <<>>
    /\ itr = 0
    /\ endln = 0
    /\ last = FALSE
    /\ lrc = 0
    /\ pending = FALSE
    /\ rc = 0
    /\ ret = 0
    /\ out = <<>>
    /\ fault_row = 0

\* __cell_to_buffer for the cell of line cur
CellToBuffer ==
    /\ pc = "art"
    /\ buf' = cell_to_buffer(tb, parent, cur, cols[1], grpset, ln[1])
    /\ pc' = "cell"
    /\ UNCHANGED <<tb, cols, itr, endln, ln, last, lrc, pending, rc, ret, out,
                   fault_row, parent, cur, grpset>>

NextArt == CellToBuffer

SpecArt == InitArt /\ [][NextArt]_vars

-----------------------------------------------------------------------------
(* Claims about the art generators *)

ArtBuilt == pc = "cell" /\ tb.format = "human" /\ cols[1].tree

LastMemberThenNull ==
    ArtBuilt /\ cols[1].is_groups /\ grpset = GrpSet(<<"last_member", "null">>)

\* C6 as stated: for a lane array of two chunks, a group in last-member state
\* and a null chunk, the group art is the last-member glyph and one single
\* filler glyph
C6_SingleFiller ==
    LastMemberThenNull =>
        /\ Len(buf) >= 2
        /\ SubSeq(buf, 1, 2) = <<"g_m_last", "pad">>
        /\ Len(buf) > 2 => buf[3] # "pad"

\* C6: for a lane array of two chunks, a group in last-member state and a
\* null chunk, the group art is the last-member glyph, a filler run of the
\* chunk size for the null chunk and the single fallback filler glyph
C6_NullChunkRun ==
    LastMemberThenNull =>
        /\ Len(buf) >= SCOLS_GRPSET_CHUNKSIZ + 2
        /\ SubSeq(buf, 1, SCOLS_GRPSET_CHUNKSIZ + 2)
             = <<"g_m_last">> \o Ntimes(SCOLS_GRPSET_CHUNKSIZ + 1, "pad")
        /\ Len(buf) > SCOLS_GRPSET_CHUNKSIZ + 2
             => buf[SCOLS_GRPSET_CHUNKSIZ + 3] # "pad"

C6_Witness == LastMemberThenNull /\ buf[1] = "g_m_last" /\ parent[cur] # 0

RECURSIVE Ancestors(_, _)
Ancestors(par, l) ==
    IF par[l] = 0 THEN {} ELSE {par[l]} \cup Ancestors(par, par[l])

NoLastChildAbove(par, l) ==
    \A a \in Ancestors(par, l) : ~is_last_child(par, a)

Corner(par, l) ==
    IF par[l] = 0 THEN <<>>
    ELSE <<IF is_last_child(par, l) THEN "right" ELSE "branch">>

\* C7 as stated: a row with N ancestors, none a last child, gets N vertical
\* glyphs before its branch or corner glyph
C7_OnePerAncestor ==
    (ArtBuilt /\ NoLastChildAbove(parent, cur)) =>
        buf = cell_groups_art(tb, cols[1], grpset)
                \o Ntimes(Cardinality(Ancestors(parent, cur)), "vert")
                \o Corner(parent, cur) \o ln[1]

\* C7: a row with N >= 1 ancestors, none a last child, gets N - 1 vertical
\* glyphs (the root ancestor adds none) before its branch or corner glyph,
\* and a row without ancestors gets no tree art, whatever the cell's data
C7_OnePerInnerAncestor ==
    (ArtBuilt /\ NoLastChildAbove(parent, cur)) =>
        buf = cell_groups_art(tb, cols[1], grpset)
                \o Ntimes(Cardinality(Ancestors(parent, cur)) - 1, "vert")
                \o Corner(parent, cur) \o ln[1]

C7_Witness ==
    /\ ArtBuilt
    /\ NoLastChildAbove(parent, cur)
    /\ Cardinality(Ancestors(parent, cur)) = 2
    /\ ~cols[1].is_groups
    /\ buf = <<"vert", "right", "a">>

-----------------------------------------------------------------------------
(* JSON output of a cell *)

has_children(par, l) == \E m \in DOMAIN par : par[m] = l

\* print_data: the value is the last of its object unless "children" follows
print_data_is_last(t, cs, i, par, l) ==
    /\ is_last_column(cs, i)
    /\ ~(t.format = "json" /\ t.is_tree /\ has_children(par, l))

\* one call of the JSON writer, made for column col
JsonCall(k, col, v, is_last) == [k |-> k, col |-> col, v |-> v, last |-> is_last]

\* a boolean that is false only for the text "0", not for a leading '0'
json_boolean_zero(data) ==
    IF data = <<>> THEN FALSE
    ELSE IF data = <<"0">> THEN FALSE
    ELSE IF Head(data) = "N" \/ Head(data) = "n" THEN FALSE
    ELSE TRUE

\* !*data ? 0 : *data == '0' ? 0 : *data == 'N' || *data == 'n' ? 0 : 1
json_boolean(data) ==
    IF data = <<>> THEN FALSE
    ELSE IF Head(data) = "0" THEN FALSE
    ELSE IF Head(data) = "N" \/ Head(data) = "n" THEN FALSE
    ELSE TRUE

json_element(cl) == IF cl.json_type = "array_string" THEN "value_s" ELSE "value_raw"

\* the chunks of a custom-wrap column, one element each
RECURSIVE json_chunks(_, _, _, _)
json_chunks(cl, col, data, next) ==
    IF next = 0 THEN <<JsonCall(json_element(cl), col, data, TRUE)>>
    ELSE <<JsonCall(json_element(cl), col, SubSeq(data, 1, next - 1), FALSE)>>
           \o json_chunks(cl, col, SubSeq(data, next + 1, Len(data)),
                          wrap_nextchunk(SubSeq(data, next + 1, Len(data))))

\* array elements whose final one carries the column's flag
RECURSIVE json_chunks_column(_, _, _, _, _)
json_chunks_column(cl, col, data, next, is_last) ==
    IF next = 0 THEN <<JsonCall(json_element(cl), col, data, is_last)>>
    ELSE <<JsonCall(json_element(cl), col, SubSeq(data, 1, next - 1), FALSE)>>
           \o json_chunks_column(cl, col, SubSeq(data, next + 1, Len(data)),
                                 wrap_nextchunk(SubSeq(data, next + 1, Len(data))),
                                 is_last)

json_array_values_column(cl, col, data, is_last) ==
    IF ~scols_column_is_customwrap(cl)
    THEN <<JsonCall("value_s", col, data, is_last)>>
    ELSE json_chunks_column(cl, col, data, wrap_nextchunk(data), is_last)

\* the elements between ul_jsonwrt_array_open and ul_jsonwrt_array_close
json_array_values(cl, col, data, is_last) ==
    IF ~scols_column_is_customwrap(cl)
    THEN <<JsonCall("value_s", col, data, TRUE)>>
    ELSE json_chunks(cl, col, data, wrap_nextchunk(data))

print_json_data(cl, col, data, is_last) ==
    CASE cl.json_type = "string" -> <<JsonCall("value_s", col, data, is_last)>>
      [] cl.json_type = "number" -> <<JsonCall("value_raw", col, data, is_last)>>
      [] cl.json_type = "boolean" ->
             <<JsonCall("value_boolean", col, json_boolean(data), is_last)>>
      [] cl.json_type \in {"array_string", "array_number"} ->
             <<JsonCall("array_open", col, <<>>, FALSE)>>
               \o json_array_values(cl, col, data, is_last)
               \o <<JsonCall("array_close", col, <<>>, is_last)>>

\* print_line in JSON format: the regular line, up to the cell that fails
RECURSIVE print_line_json(_, _, _, _, _, _, _)
print_line_json(t, cs, par, l, line, i, bad) ==
    IF i > Len(cs) THEN <<>>
    ELSE IF cs[i].hidden THEN print_line_json(t, cs, par, l, line, i + 1, bad)
    ELSE IF i = bad THEN <<>>
    ELSE print_json_data(cs[i], i, cell_to_buffer(t, par, l, cs[i], <<>>, line[i]),
                         print_data_is_last(t, cs, i, par, l))
           \o print_line_json(t, cs, par, l, line, i + 1, bad)

JsonTypes == {"string", "number", "boolean", "array_string", "array_number"}

JsonColumn(ty, f, h) == [Column(MaxWidth, f, h) EXCEPT !.json_type = ty]

JsonColumns ==
    { JsonColumn(ty, f, FALSE) : ty \in JsonTypes, f \in {NoFlags, CustomWrap} }
    \cup { JsonColumn("string", NoFlags, TRUE) }

JsonData ==
    { <<>>, <<"0">>, <<"0", "1">>, <<"1">>, <<"1", "0">>, <<"n", "o">>, <<"N">>,
      <<"y">>, <<"a", "\n", "a">>, <<"a", "\n">> }

\* one line of a JSON table: of a flat table, or a parent or a leaf of a tree
InitJson ==
    /\ pc = "json"
    /\ tb \in { [Table("json", FALSE, 1, FALSE, TRUE) EXCEPT !.is_tree = tr] :
                  tr \in BOOLEAN }
    /\ parent = [l \in 1..NRows |-> IF tb.is_tree THEN l - 1 ELSE 0]
    /\ cur \in IF tb.is_tree THEN {1, NRows} ELSE {1}
    /\ cols \in [1..NCols -> JsonColumns]
    /\ ln \in { cells \in [1..NCols -> JsonData] :
                  \A i \in 1..NCols : cols[i].hidden => cells[i] = <<>> }
    /\ grpset = <<>>
    /\ buf = <<>>
    /\ itr = 0
    /\ endln = 0
    /\ last = FALSE
    /\ lrc = 0
    /\ pending = FALSE
    /\ rc = 0
    /\ ret = 0
    /\ out = <<>>
    /\ fault_row = 0

\* print_line for the line cur
PrintLineJson ==
    /\ pc = "json"
    /\ \E bad \in 0..NCols :
           /\ out' = print_line_json(tb, cols, parent, cur, ln, 1, bad)
           /\ fault_row' = IF bad # 0 /\ ~cols[bad].hidden THEN cur ELSE 0
    /\ pc' = "row"
    /\ UNCHANGED <<tb, cols, itr, endln, ln, last, lrc, pending, rc, ret>>
    /\ UNCHANGED forest

NextJson == PrintLineJson

SpecJson == InitJson /\ [][NextJson]_vars

-----------------------------------------------------------------------------
(* Claims about the JSON output *)

JsonRow == pc = "row" /\ fault_row = 0

Booleans == { i \in 1..NCols : ~cols[i].hidden /\ cols[i].json_type = "boolean" }

Arrays ==
    { i \in 1..NCols :
        ~cols[i].hidden /\ cols[i].json_type \in {"array_string", "array_number"} }

BooleanOf(i) ==
    { out[k].v : k \in { j \in 1..Len(out) :
                           out[j].col = i /\ out[j].k = "value_boolean" } }

\* C8 as stated: a boolean column renders false exactly when the cell is
\* empty, is the text "0", or starts with 'N' or 'n'
C8_FalseOnZeroText ==
    JsonRow => \A i \in Booleans :
        BooleanOf(i) = { ~(ln[i] = <<>> \/ ln[i] = <<"0">>
                           \/ (ln[i] # <<>> /\ ln[i][1] \in {"N", "n"})) }

\* C8: a boolean column renders false exactly when the cell is empty or its
\* first character is '0', 'N' or 'n'; every other value renders true
C8_FalseOnFirstChar ==
    JsonRow => \A i \in Booleans :
        BooleanOf(i) = { ~(ln[i] = <<>> \/ ln[i][1] \in {"0", "N", "n"}) }

C8_Witness ==
    /\ JsonRow
    /\ 1 \in Booleans
    /\ ln[1] = <<"0", "1">>
    /\ BooleanOf(1) = {FALSE}

\* the position of the ul_jsonwrt_array_close of column i
CloseOf(i) ==
    { k \in 1..Len(out) : out[k].col = i /\ out[k].k = "array_close" }

\* C9 as stated: the final element written inside the array carries 'last'
\* exactly when no more columns remain after the column
C9_ElementFollowsColumn ==
    JsonRow => \A i \in Arrays : \A k \in CloseOf(i) :
        /\ out[k - 1].col = i
        /\ out[k - 1].k \in {"value_s", "value_raw"}
        /\ out[k - 1].last = is_last_column(cols, i)

\* C9: the final element written inside the array is always written as the
\* last one, with and without a custom chunking function; the flag of the
\* column (no more columns remain, and no "children" array follows) is passed
\* only when the array is closed
C9_ElementIsLast ==
    JsonRow => \A i \in Arrays :
        /\ Cardinality(CloseOf(i)) = 1
        /\ \A k \in CloseOf(i) :
             /\ out[k].last = print_data_is_last(tb, cols, i, parent, cur)
             /\ out[k - 1].col = i
             /\ out[k - 1].k \in {"value_s", "value_raw"}
             /\ out[k - 1].last

C9_Witness ==
    /\ JsonRow
    /\ Arrays = 1..NCols
    /\ scols_column_is_customwrap(cols[1])
    /\ ~scols_column_is_customwrap(cols[2])
    /\ ln[1] = <<"a", "\n", "a">>
    /\ Len(out) = 7
    /\ out[3].last /\ ~out[4].last

-----------------------------------------------------------------------------
(* The fill of the cells of a line *)

\* print_empty_cell, the cells of the tree art written instead of padding
empty_cell_art(cs, i, line, par, l) ==
    IF line = NullLine \/ ~cs[i].tree THEN 0
    ELSE IF par[l] = 0 THEN (IF has_children(par, l) THEN GCells("vert") ELSE 0)
    ELSE mbs_width(tree_ascii_art_to_buffer(par, l)
                     \o (IF has_children(par, l) /\ has_pending_data(cs)
                         THEN <<"vert">> ELSE <<>>))

print_empty_cell(t, cs, i, line, par, l) ==
    Fill(/\ ~(t.minout /\ is_next_columns_empty(cs, i, line))
         /\ ~(~t.maxout /\ is_last_column(cs, i)),
         empty_cell_art(cs, i, line, par, l), cs[i].width)

\* the end of the cell of column col, written by the given function
FillRec(path, col, f) ==
    [path |-> path, col |-> col, filled |-> f.filled, len |-> f.len, pad |-> f.pad]

\* print_newline_padding: print_empty_cell for the columns up to i
newline_padding(t, cs, i, line, par, l) ==
    [j \in 1..i |-> FillRec("empty", j, print_empty_cell(t, cs, j, line, par, l))]

\* print_line, the regular line: the ends of the cells of columns i..ncols
RECURSIVE fill_regular(_, _, _, _, _, _, _, _)
fill_regular_cell(t, cs, par, l, line, i, d) ==
    <<FillRec("data", i, d.fill)>>
      \o (IF d.nlpad THEN newline_padding(t, cs, i, line, par, l) ELSE <<>>)

fill_regular_next(t, cs, par, l, line, i, acc, pend, d) ==
    fill_regular(t, [cs EXCEPT ![i] = d.cl], par, l, line, i + 1,
                 acc \o fill_regular_cell(t, [cs EXCEPT ![i] = d.cl], par, l, line, i, d),
                 pend \/ has_pending(d.cl))

fill_regular(t, cs, par, l, line, i, acc, pend) ==
    IF i > Len(cs) THEN [cols |-> cs, fills |-> acc, rc |-> 0, pending |-> pend]
    ELSE IF cs[i].hidden THEN fill_regular(t, cs, par, l, line, i + 1, acc, pend)
    ELSE fill_regular_next(t, cs, par, l, line, i, acc, pend,
             print_data(t, cs, i, line,
                        cell_to_buffer(t, par, l, cs[i], <<>>, line[i])))

\* print_line, one extra line: the ends of the cells of columns i..ncols
RECURSIVE fill_extra(_, _, _, _, _, _, _, _, _)
fill_extra_next(t, cs, par, l, line, i, acc, pend, p) ==
    fill_extra(t, [cs EXCEPT ![i] = p.cl], par, l, line, i + 1,
               IF p.rc = 0 THEN Append(acc, FillRec("pending", i, p.fill)) ELSE acc,
               p.rc, pend \/ (p.rc = 0 /\ has_pending(p.cl)))

fill_extra(t, cs, par, l, line, i, acc, r, pend) ==
    IF r # 0 \/ i > Len(cs) THEN [cols |-> cs, fills |-> acc, rc |-> r, pending |-> pend]
    ELSE IF cs[i].hidden THEN fill_extra(t, cs, par, l, line, i + 1, acc, r, pend)
    ELSE IF has_pending(cs[i])
    THEN fill_extra_next(t, cs, par, l, line, i, acc, pend,
                         print_pending_data(t, cs, i, line, FALSE))
    ELSE fill_extra(t, cs, par, l, line, i + 1,
                    Append(acc, FillRec("empty", i,
                                        print_empty_cell(t, cs, i, line, par, l))),
                    r, pend)

FillColumns ==
    { [Column(MaxWidth, NoFlags, FALSE) EXCEPT !.tree = tr] : tr \in BOOLEAN }
    \cup { Column(w, Wrap, FALSE) : w \in 0..1 }
    \cup { Column(1, CustomWrap, FALSE), Column(1, NoFlags, FALSE),
           Column(1, NoFlags, TRUE) }

\* a table is printed with min-out, with max-out or with neither
FillTable(mi, ma, tr) ==
    [Table("human", FALSE, 1, FALSE, TRUE) EXCEPT
        !.minout = mi, !.maxout = ma, !.is_tree = tr]

\* one line of a human table: of a flat table, or a parent or a leaf of a tree
InitFill ==
    /\ pc = "fill"
    /\ cols \in [1..NCols -> FillColumns]
    /\ tb \in { FillTable(mi, ma, \E i \in 1..NCols : cols[i].tree) :
                  mi \in BOOLEAN, ma \in BOOLEAN }
    /\ ~(tb.minout /\ tb.maxout)
    /\ parent = [l \in 1..NRows |-> IF tb.is_tree THEN l - 1 ELSE 0]
    /\ cur \in IF tb.is_tree THEN {1, NRows} ELSE {1}
    /\ ln \in Lines(cols)
    /\ grpset = <<>>
    /\ buf = <<>>
    /\ itr = 0
    /\ endln = 0
    /\ last = FALSE
    /\ lrc = 0
    /\ pending = FALSE
    /\ rc = 0
    /\ ret = 0
    /\ out = <<>>
    /\ fault_row = 0

\* print_line, the regular line of the line cur
FillRegular ==
    /\ pc = "fill"
    /\ \E p \in {fill_regular(tb, cols, parent, cur, ln, 1, <<>>, FALSE)} :
           /\ cols' = p.cols
           /\ out' = p.fills
           /\ pending' = p.pending
    /\ pc' = "fextra"
    /\ UNCHANGED <<tb, itr, endln, ln, last, lrc, rc, ret, fault_row>>
    /\ UNCHANGED forest

\* print_line, one extra line of the multi-line cells
FillExtra ==
    /\ pc = "fextra"
    /\ lrc = 0 /\ pending
    /\ tb.termlines_used < MaxCont
    /\ \E p \in {fill_extra(tb, cols, parent, cur, ln, 1, out, 0, FALSE)} :
           /\ cols' = p.cols
           /\ out' = p.fills
           /\ lrc' = p.rc
           /\ pending' = p.pending
    /\ tb' = [tb EXCEPT !.termlines_used = @ + 1]
    /\ UNCHANGED <<pc, itr, endln, ln, last, rc, ret, fault_row>>
    /\ UNCHANGED forest

\* print_line returns
FillReturn ==
    /\ pc = "fextra"
    /\ ~(lrc = 0 /\ pending)
    /\ rc' = print_line_return(lrc)
    /\ pc' = "fdone"
    /\ UNCHANGED <<tb, cols, itr, endln, ln, last, lrc, pending, ret, out, fault_row>>
    /\ UNCHANGED forest

NextFill == FillRegular \/ FillExtra \/ FillReturn

SpecFill == InitFill /\ [][NextFill]_vars

-----------------------------------------------------------------------------
(* Claims about the fill *)

FillPaths == pc \in {"fextra", "fdone"}

\* the fill policy: skipped with min-out when the rest of the row is empty,
\* skipped for the last column without max-out, done otherwise
FillPolicy(mi, ma, is_last, rest_empty) ==
    IF mi /\ rest_empty THEN FALSE
    ELSE IF is_last /\ ~ma THEN FALSE
    ELSE TRUE

LaterVisible(i) == { j \in (i + 1)..NCols : ~cols[j].hidden }

PaddedToWidth(r) ==
    r.pad = IF r.len < cols[r.col].width THEN cols[r.col].width - r.len ELSE 0

\* C11 as stated: in print_data, print_pending_data and print_empty_cell the
\* fill follows the policy, the rest of the row being empty exactly when no
\* later visible column has non-empty cell data
C11_FillPolicyData ==
    FillPaths => \A k \in 1..Len(out) :
        /\ out[k].filled =
             FillPolicy(tb.minout, tb.maxout, LaterVisible(out[k].col) = {},
                        \A j \in LaterVisible(out[k].col) : ln[j] = <<>>)
        /\ out[k].filled => PaddedToWidth(out[k])

\* C11: in print_data, print_pending_data and print_empty_cell the fill
\* follows the policy, the rest of the row being empty exactly when no later
\* visible column is a tree column or has non-empty cell data
C11_FillPolicy ==
    FillPaths => \A k \in 1..Len(out) :
        /\ out[k].filled =
             FillPolicy(tb.minout, tb.maxout, LaterVisible(out[k].col) = {},
                        \A j \in LaterVisible(out[k].col) :
                            ~cols[j].tree /\ ln[j] = <<>>)
        /\ out[k].filled => PaddedToWidth(out[k])

C11_Witness ==
    /\ pc = "fdone"
    /\ tb.minout
    /\ cols[2].tree /\ ln[2] = <<>>
    /\ { out[k].path : k \in 1..Len(out) } = {"data", "pending", "empty"}
    /\ \A k \in 1..Len(out) : out[k].col = 1 => out[k].filled
    /\ \E k \in 1..Len(out) : out[k].path = "pending" /\ out[k].len = cols[1].width

-----------------------------------------------------------------------------
(* The pending-data cursor of one column *)

MaxCalls == 4

\* the byte offsets of pending text s that a caller can step to: after each
\* of its glyphs, and one byte beyond its end
StepBytes(s, sz) == { strlen(SubSeq(s, 1, k)) : k \in 1..Len(s) } \cup {sz + 1}

Call(op, text, n) == [op |-> op, text |-> text, n |-> n]

InitCursor ==
    /\ pc = "cursor"
    /\ cols = <<Column(1, Wrap, FALSE)>>
    /\ tb = Table("human", FALSE, 1, FALSE, TRUE)
    /\ ln = NullLine
    /\ NoForest
    /\ itr = 0
    /\ endln = 0
    /\ last = FALSE
    /\ lrc = 0
    /\ pending = FALSE
    /\ rc = 0
    /\ ret = 0
    /\ out = <<>>
    /\ fault_row = 0

\* print_data captures the tail of a cell: set_pending_data(cl, data, bytes)
SetPendingData ==
    /\ Len(out) < MaxCalls
    /\ \E text \in CellData :
           /\ cols' = [cols EXCEPT ![1] = set_pending_data(cols[1], text, strlen(text))]
           /\ out' = Append(out, Call("set", text, strlen(text)))
    /\ UNCHANGED <<pc, tb, itr, endln, ln, last, lrc, pending, rc, ret, fault_row>>
    /\ UNCHANGED forest

\* a line of the pending data was written: step_pending_data(cl, bytes)
StepPendingData ==
    /\ Len(out) < MaxCalls
    /\ has_pending(cols[1])
    /\ \E n \in StepBytes(pending_text(cols[1]), cols[1].pending_data_sz) :
           /\ cols' = [cols EXCEPT ![1] = step_pending_data(cols[1], n)]
           /\ out' = Append(out, Call("step", <<>>, n))
    /\ UNCHANGED <<pc, tb, itr, endln, ln, last, lrc, pending, rc, ret, fault_row>>
    /\ UNCHANGED forest

NextCursor == SetPendingData \/ StepPendingData

SpecCursor == InitCursor /\ [][NextCursor]_vars

-----------------------------------------------------------------------------
(* Claims about the pending-data cursor *)

\* HasPending exactly with bytes left, and the cursor and the bytes left add
\* up to the copied text
CursorWindow(cl) ==
    /\ has_pending(cl) <=> cl.pending_data_sz > 0
    /\ cl.pending_data + cl.pending_data_sz = strlen(cl.pending_data_buf)

CursorEmpty(cl) ==
    cl.pending_data_buf = <<>> /\ cl.pending_data = 0 /\ cl.pending_data_sz = 0

\* the effect of call c, which took the column from cl to cl2
CursorCall(c, cl, cl2) ==
    /\ (c.op = "set" /\ c.text = <<>>) => CursorEmpty(cl2)
    /\ (c.op = "set" /\ c.text # <<>>) =>
           cl2.pending_data_buf = c.text /\ cl2.pending_data = 0
    /\ (c.op = "step" /\ c.n >= cl.pending_data_sz) => CursorEmpty(cl2)
    /\ (c.op = "step" /\ c.n < cl.pending_data_sz) =>
           /\ cl2.pending_data = cl.pending_data + c.n
           /\ cl2.pending_data_sz = cl.pending_data_sz - c.n
           /\ cl2.pending_data_sz > 0
           /\ cl2.pending_data_buf = cl.pending_data_buf

\* C12: after every set and step call the cursor is HasPending exactly when
\* bytes are left, set of an empty text and step of all that is left yield
\* Empty, a smaller step moves the cursor and the bytes left by its bytes and
\* keeps the buffer, and cursor plus bytes left is the length of the copy
C12_CursorInvariant ==
    [][ Len(out') > Len(out) =>
          /\ CursorWindow(cols'[1])
          /\ CursorCall(out'[Len(out')], cols[1], cols'[1]) ]_vars

C12_Witness ==
    /\ pc = "cursor"
    /\ Len(out) = 3
    /\ out[2].op = "step" /\ out[3].op = "step"
    /\ cols[1].pending_data_buf = <<"a", "W", "a">>
    /\ cols[1].pending_data = 4
    /\ cols[1].pending_data_sz = 1

-----------------------------------------------------------------------------
(* Tree walker *)

Children(par, p) == { m \in DOMAIN par : par[m] = p }

RECURSIVE MinOf(_)
MinOf(S) ==
    LET x == CHOOSE y \in S : TRUE
    IN  IF S = {x} THEN x
        ELSE IF x < MinOf(S \ {x}) THEN x ELSE MinOf(S \ {x})

\* scols_walk_tree: the lines in the order of the depth-first walk, every
\* line before its children, the children in their order
RECURSIVE scols_walk_tree(_, _)
scols_walk_tree(par, S) ==
    IF S = {} THEN <<>>
    ELSE <<MinOf(S)>> \o scols_walk_tree(par, Children(par, MinOf(S)))
                      \o scols_walk_tree(par, S \ {MinOf(S)})

\* the line is a root and no root comes after it
is_last_tree_root(par, l) ==
    par[l] = 0 /\ \A m \in DOMAIN par : m > l => par[m] # 0

\* the line is the last one of the walk
scols_walk_is_last(par, l) ==
    scols_walk_tree(par, Children(par, 0))[Len(par)] = l

TreeTok(k, r, is_last) == [k |-> k, r |-> r, last |-> is_last]

json_close_last(par, l) ==
    \/ par[l] # 0 /\ is_last_child(par, l)
    \/ par[l] = 0 /\ is_last_tree_root(par, l)

\* closing that ends with the object of the line itself and the array it is
\* the last member of, leaving the ancestors open
json_close_one(par, l, is_last) ==
    <<TreeTok("object_close", l, is_last)>>
      \o (IF is_last /\ par[l] # 0 THEN <<TreeTok("array_close", l, is_last)>>
          ELSE <<>>)

\* print_tree_line: terminate all open last children for JSON
RECURSIVE json_close(_, _, _)
json_close(par, l, is_last) ==
    <<TreeTok("object_close", l, is_last)>>
      \o (IF is_last /\ par[l] # 0 THEN <<TreeTok("array_close", l, is_last)>>
          ELSE <<>>)
      \o (IF par[l] # 0 /\ is_last
          THEN json_close(par, par[l], json_close_last(par, par[l]))
          ELSE <<>>)

\* print_tree_line after print_line returned r
print_tree_line_tail(t, par, l) ==
    IF has_children(par, l)
    THEN (IF t.format = "json" THEN <<TreeTok("array_open", l, FALSE)>>
          ELSE <<TreeTok("sep", l, FALSE)>>)
    ELSE IF t.format = "json" THEN json_close(par, l, json_close_last(par, l))
    ELSE IF ~t.no_linesep /\ ~scols_walk_is_last(par, l)
    THEN <<TreeTok("sep", l, FALSE)>>
    ELSE <<>>

\* print_tree_line: what is written around the cells of line l, and rc;
\* r is the rc print_line computed
print_tree_line(t, par, l, r) ==
    [out |-> (IF t.format = "json" THEN <<TreeTok("object_open", l, FALSE)>>
              ELSE <<>>)
               \o <<TreeTok("line", l, FALSE)>>
               \o (IF print_line_return(r) # 0 THEN <<>>
                   ELSE print_tree_line_tail(t, par, l)),
     rc |-> print_line_return(r),
     termlines |-> IF print_line_return(r) = 0 /\ t.format # "json"
                      /\ (has_children(par, l)
                          \/ (~t.no_linesep /\ ~scols_walk_is_last(par, l)))
                   THEN 1 ELSE 0]

\* a tree table: any forest, JSON or human format
InitTree ==
    /\ pc = "tree"
    /\ parent \in Forests
    /\ tb \in { [TreeTable(fmt, FALSE) EXCEPT !.no_linesep = nosep] :
                  fmt \in {"json", "human"}, nosep \in BOOLEAN }
    /\ cols = <<TreeColumn(TRUE, FALSE)>>
    /\ ln = NullLine
    /\ cur = 0
    /\ grpset = <<>>
    /\ buf = <<>>
    /\ itr = 0
    /\ endln = 0
    /\ last = FALSE
    /\ lrc = 0
    /\ pending = FALSE
    /\ rc = 0
    /\ ret = 0
    /\ out = <<>>
    /\ fault_row = 0

\* scols_walk_tree calls print_tree_line for the next line of the walk
WalkTreeLine ==
    /\ pc = "tree"
    /\ rc = 0
    /\ itr < NLines
    /\ \E r \in {0, -ENOMEM} :
         \E p \in {print_tree_line(tb, parent,
                                   scols_walk_tree(parent, Children(parent, 0))[itr + 1],
                                   r)} :
             /\ lrc' = r
             /\ rc' = p.rc
             /\ out' = out \o p.out
             /\ tb' = [tb EXCEPT !.termlines_used = @ + p.termlines]
    /\ cur' = scols_walk_tree(parent, Children(parent, 0))[itr + 1]
    /\ itr' = itr + 1
    /\ UNCHANGED <<pc, cols, endln, ln, last, pending, ret, fault_row, parent,
                   grpset, buf>>

\* __scols_print_tree returns what the walk returned
WalkTreeReturn ==
    /\ pc = "tree"
    /\ ~(rc = 0 /\ itr < NLines)
    /\ ret' = rc
    /\ pc' = "walked"
    /\ UNCHANGED <<tb, cols, itr, endln, ln, last, lrc, pending, rc, out, fault_row>>
    /\ UNCHANGED forest

NextTree == WalkTreeLine \/ WalkTreeReturn

SpecTree == InitTree /\ [][NextTree]_vars

-----------------------------------------------------------------------------
(* Claims about the tree walker *)

Bad == <<[k |-> "bad", r |-> 0]>>

\* the JSON writer's nesting after the tokens ev[k..]: st is the stack of the
\* open objects and arrays, Bad after a close that does not match the
\* innermost open one or does not carry the flag `expect` gives it
RECURSIVE Nesting(_, _, _, _)
NestingClose(ev, k, st, top, ok) ==
    IF ok THEN Nesting(ev, k + 1, SubSeq(st, 1, Len(st) - 1), top) ELSE Bad

Nesting(ev, k, st, par) ==
    IF st = Bad \/ k > Len(ev) THEN st
    ELSE IF ev[k].k \in {"object_open", "array_open"}
    THEN Nesting(ev, k + 1, Append(st, [k |-> ev[k].k, r |-> ev[k].r]), par)
    ELSE IF ev[k].k = "object_close"
    THEN NestingClose(ev, k, st, par,
             /\ st # <<>>
             /\ st[Len(st)] = [k |-> "object_open", r |-> ev[k].r]
             /\ ev[k].last = json_close_last(par, ev[k].r))
    ELSE IF ev[k].k = "array_close"
    THEN NestingClose(ev, k, st, par,
             /\ st # <<>>
             /\ st[Len(st)].k = "array_open"
             /\ par[ev[k].r] = st[Len(st)].r
             /\ ev[k].last)
    ELSE Nesting(ev, k + 1, st, par)

Count(kind) == Cardinality({ k \in 1..Len(out) : out[k].k = kind })

JsonTree == tb.format = "json" /\ pc \in {"tree", "walked"}

\* C13: in a JSON tree every close matches the innermost open object or
\* array and carries 'last' exactly for a last child, the last root and a
\* "children" array; after the walk one object per line and one array per
\* line with children were opened and all of them are closed
C13_JsonNesting ==
    JsonTree =>
        /\ Nesting(out, 1, <<>>, parent) # Bad
        /\ pc = "walked" =>
             /\ Nesting(out, 1, <<>>, parent) = <<>>
             /\ Count("object_open") = NLines
             /\ Count("object_close") = NLines
             /\ Count("array_open")
                  = Cardinality({ l \in 1..NLines : has_children(parent, l) })
             /\ Count("array_close") = Count("array_open")

C13_Witness ==
    /\ JsonTree
    /\ pc = "walked"
    /\ parent = <<0, 1, 2, 0>>
    /\ Count("array_close") = 2
    /\ out[Len(out)] = TreeTok("object_close", 4, TRUE)

-----------------------------------------------------------------------------
(* The width of the group art *)

\* __scols_print_header: the blanks written before the header of the column
\* that holds the group art
header_groups_pad(t, cl, gs) ==
    IF cl.is_groups /\ t.is_tree /\ cl.tree THEN Ntimes(Len(gs) + 1, "pad")
    ELSE <<>>

\* C14: whatever the lane array holds, the group art of a row is as wide as
\* the blanks the header reserves for it, grpset_size + 1 cells
C14_GroupArtWidth ==
    (ArtBuilt /\ cols[1].is_groups /\ tb.has_groups) =>
        mbs_width(buf) = mbs_width(header_groups_pad(tb, cols[1], grpset))
                           + mbs_width(cell_tree_art(tb, parent, cur))
                           + mbs_width(ln[1])

-----------------------------------------------------------------------------
(* Session start and end *)

\* the size of a stdio buffer
BUFSIZ == 8192

MaxTerm == 4
MaxReduce == 2
MaxSessions == 3

\* a table with its terminal settings: termforce "auto", "never" or "always"
SessionTable(fmt, rep, tr, width, reduce, force, sym) ==
    [Table(fmt, rep, 1, FALSE, FALSE) EXCEPT !.is_tree = tr]
      @@ [termwidth |-> width, termreduce |-> reduce, termforce |-> force,
          is_term |-> FALSE, symbols |-> sym, priv_symbols |-> FALSE]

NoBuffer == [size |-> 0]

RECURSIVE strlen_line(_, _)
strlen_line(line, i) ==
    IF i > Len(line) THEN 0 ELSE strlen(line[i]) + strlen_line(line, i + 1)

RECURSIVE strlen_headers(_, _)
strlen_headers(cs, i) ==
    IF i > Len(cs) THEN 0
    ELSE (IF cs[i].hidden THEN 0 ELSE strlen(cs[i].header) + 2)
           + strlen_headers(cs, i + 1)

\* __scols_cleanup_printing
scols_cleanup_printing(t) ==
    IF t.priv_symbols THEN [t EXCEPT !.symbols = FALSE, !.priv_symbols = FALSE]
    ELSE t

\* __scols_initialize_printing, the symbols
init_symbols(t) ==
    IF ~t.symbols THEN [t EXCEPT !.symbols = TRUE, !.priv_symbols = TRUE]
    ELSE [t EXCEPT !.priv_symbols = FALSE]

\* __scols_initialize_printing, is_term
init_term(t, tty) ==
    IF t.format # "human" THEN t
    ELSE [t EXCEPT !.is_term = IF t.termforce = "never" THEN FALSE
                                ELSE IF t.termforce = "always" THEN TRUE
                                ELSE tty]

\* __scols_initialize_printing, the width of the terminal
init_width(t) ==
    IF t.is_term /\ t.termreduce > 0 /\ t.termreduce < t.termwidth
    THEN [t EXCEPT !.termwidth = t.termwidth - t.termreduce]
    ELSE t

\* __scols_initialize_printing, header_repeat
init_repeat(t) ==
    IF ~t.is_term \/ t.format # "human" \/ t.is_tree
    THEN [t EXCEPT !.header_repeat = FALSE]
    ELSE t

\* __scols_initialize_printing, the space for the decoration of a line
extra_bufsz(t, cs) ==
    (IF t.is_tree THEN NRows * strlen(<<"vert">>) ELSE 0)
      + (CASE t.format = "raw" -> Len(cs)
           [] t.format = "json" -> NRows * 3 + strlen_headers(cs, 1)
           [] t.format = "export" -> strlen_headers(cs, 1)
           [] OTHER -> 0)

\* __scols_initialize_printing, the size of the scratch buffer
init_bufsz(t, cs, line, base) ==
    IF strlen_line(line, 1) + extra_bufsz(t, cs) > base
    THEN strlen_line(line, 1) + extra_bufsz(t, cs)
    ELSE base

\* __scols_initialize_printing after the table was set up: the buffer is
\* allocated and the widths are calculated, or `fail` names what failed
init_buffer(t, cs, line, fail) ==
    IF fail = "buffer"
    THEN [tb |-> scols_cleanup_printing(t), buf |-> NoBuffer, rc |-> -ENOMEM]
    ELSE IF fail = "calculate" /\ t.format = "human"
    THEN [tb |-> scols_cleanup_printing(t), buf |-> NoBuffer, rc |-> -ENOMEM]
    ELSE [tb |-> t,
          buf |-> [size |-> init_bufsz(t, cs, line,
                                       IF t.is_term THEN t.termwidth ELSE BUFSIZ) + 1],
          rc |-> 0]

scols_initialize_printing(t, cs, line, tty, fail) ==
    IF fail = "symbols" /\ ~t.symbols
    THEN [tb |-> scols_cleanup_printing(t), buf |-> NoBuffer, rc |-> -ENOMEM]
    ELSE init_buffer(init_repeat(init_width(init_term(init_symbols(t), tty))),
                     cs, line, fail)

\* a table that was never printed
InitSession ==
    /\ pc = "closed"
    /\ tb \in { SessionTable(fmt, rep, tr, width, reduce, force, sym) :
                  fmt \in {"human", "json"}, rep \in BOOLEAN, tr \in BOOLEAN,
                  width \in 1..MaxTerm, reduce \in 0..MaxReduce,
                  force \in {"auto", "never", "always"}, sym \in BOOLEAN }
    /\ cols = [i \in 1..NCols |-> Column(MaxWidth, NoFlags, i = 2)]
    /\ ln \in { [i \in 1..NCols |-> d] : d \in {<<>>, <<"a", "W", "a">>} }
    /\ buf = NoBuffer
    /\ parent = [l \in 1..NRows |-> 0]
    /\ cur = 0
    /\ grpset = <<>>
    /\ itr = 0
    /\ endln = 0
    /\ last = FALSE
    /\ lrc = 0
    /\ pending = FALSE
    /\ rc = 0
    /\ ret = 0
    /\ out = <<>>
    /\ fault_row = 0

\* the outcome of a session start: rc, is_term and the width of the terminal
Session(r, t) == [rc |-> r, is_term |-> t.is_term, termwidth |-> t.termwidth]

\* a print call starts: __scols_initialize_printing
InitializePrinting ==
    /\ pc = "closed"
    /\ itr < MaxSessions
    /\ \E tty \in BOOLEAN, fail \in {"none", "symbols", "buffer", "calculate"} :
         \E p \in {scols_initialize_printing(tb, cols, ln, tty, fail)} :
             /\ tb' = p.tb
             /\ buf' = p.buf
             /\ rc' = p.rc
             /\ pc' = IF p.rc = 0 THEN "open" ELSE "closed"
             /\ out' = Append(out, Session(p.rc, p.tb))
    /\ itr' = itr + 1
    /\ UNCHANGED <<cols, endln, ln, last, lrc, pending, ret, fault_row,
                   parent, cur, grpset>>

\* the print call ends: __scols_cleanup_printing
CleanupPrinting ==
    /\ pc = "open"
    /\ tb' = scols_cleanup_printing(tb)
    /\ buf' = NoBuffer
    /\ pc' = "closed"
    /\ UNCHANGED <<cols, itr, endln, ln, last, lrc, pending, rc, ret, out,
                   fault_row, parent, cur, grpset>>

NextSession == InitializePrinting \/ CleanupPrinting

SpecSession == InitSession /\ [][NextSession]_vars

-----------------------------------------------------------------------------
(* Claims about the session *)

Started == { k \in 1..Len(out) : out[k].rc = 0 /\ out[k].is_term }

\* C15: for a human table on a terminal, whenever a session has started a
\* second or later time the width of the terminal is the one the first
\* session left: the reduction is subtracted once, not once per session
C15_ReduceOnce ==
    (pc = "open" /\ tb.format = "human" /\ tb.is_term /\ Started # {}) =>
        tb.termwidth = out[MinOf(Started)].termwidth

====
